---- MODULE Spec2Model ----
(***************************************************************************)
(* Waypoint normalization engine of ttg-eng/routes                         *)
(* (src/tools/normalize_waypoints.py) as a state machine.                  *)
(*                                                                         *)
(* Coordinates.  A coordinate is a pair <<lat, lon>> of integers:           *)
(* decimetres north and east of a local origin; distances and the spacing  *)
(* are in decimetres too (the default spacing of 20 m is 200).  The        *)
(* program computes on floats in degrees; at city scale the great-circle   *)
(* distance is the planar distance, so haversine_distance is modelled as   *)
(* the integer part of the Euclidean distance.  The inputs enumerated      *)
(* below have legs of integral length (parallel to an axis, or 3-4-5), and *)
(* the distances between their stops are chosen so that every division    *)
(* the program performs on them is exact.  Where a distance is an exact    *)
(* multiple of the spacing the floats of the program decide by their       *)
(* rounding: the model then takes every outcome (Roundings), one for each  *)
(* leg and each comparison.  One route (RouteG) has such a distance, and   *)
(* so have the polylines given to the interpolator on its own.             *)
(*                                                                         *)
(* Control.  The program is sequential.  The only points where the         *)
(* environment acts are the HTTP requests to the map-matching service, so  *)
(* the steps of the machine are: the entry of process_route_file, one step *)
(* per service request (call_osrm_match up to its next request or return), *)
(* the return of a recursive call_osrm_match to its caller, the return of  *)
(* call_osrm_match to normalize_segment / normalize_route, and the file    *)
(* operations of process_route_file, of which the copy and the write may   *)
(* fail.  main                                                             *)
(* adds the steps of its loop over the route files.  The gateway           *)
(* (call_osrm_match) and the interpolator                                  *)
(* (interpolate_waypoints_along_geometry) are also run on their own, the   *)
(* interpolator one leg of the polyline at a time.                         *)
(***************************************************************************)
EXTENDS Integers, Sequences, FiniteSets, TLC

VARIABLES
  file,        \* the persisted route document (input_path)
  bak,         \* the backup file (input_path with suffix .json.bak)
  spacing_m,   \* --spacing
  backup,      \* not --no-backup
  pc,          \* position of the program
  result,      \* value returned by process_route_file
  route,       \* normalize_route: the points of the loaded document
  new_points,  \* normalize_route: new_points
  phase,       \* normalize_route: which segment is being normalized
  seg_idx,     \* normalize_route: seg_idx (1-based), meaningful in phase "seg"
  next_id,     \* identities minted so far by generate_uuid7
  match_call,  \* arguments of the outermost call_osrm_match in progress
  stack,       \* activation records of call_osrm_match, innermost last
  ret,         \* value just returned by a call_osrm_match, not yet consumed
  svc,         \* behaviour profile of the map-matching service in this run
  nreq,        \* history: number of HTTP requests issued
  last,        \* history: the last call of call_osrm_match_chunk
  all_failed,  \* history: no request has been answered with a geometry
  all_echo,    \* history: every request was answered with its own points
  last_segment, \* history: the last call of normalize_segment that returned
  minted,      \* history: for each identity minted, the segment it is of
  written,     \* history: the documents written to input_path, in order
  resample,    \* a call of interpolate_waypoints_along_geometry on its own
  batch        \* main: the arguments, the loop over the files, the exit

vars == <<file, bak, spacing_m, backup, pc, result, route, new_points, phase,
          seg_idx, next_id, match_call, stack, ret, svc, nreq, last,
          all_failed, all_echo, last_segment, minted, written, resample,
          batch>>

fileVars == <<file, bak, spacing_m, backup, result, written>>
routeVars == <<route, new_points, phase, seg_idx, next_id, last_segment,
               minted>>
otherVars == <<resample, batch>>

----------------------------------------------------------------------------
(* Values *)

\* What a call of call_osrm_match / call_osrm_match_chunk produces: None, a
\* list of coordinates, or an exception that propagates to the caller.
NONE == [tag |-> "None", geom |-> <<>>, exc |-> ""]
Geometry(g) == [tag |-> "list", geom |-> g, exc |-> ""]
Raise(e) == [tag |-> "raise", geom |-> <<>>, exc |-> e]
\* No returned value is pending.
NoRet == [tag |-> "noret", geom |-> <<>>, exc |-> ""]
\* Python truthiness of a returned value: not None and not an empty list.
Truthy(v) == v.tag = "list" /\ v.geom # <<>>

\* A file: absent, or holding a route document.
NoFile == [exists |-> FALSE, points |-> <<>>, complete |-> FALSE]
Document(points) == [exists |-> TRUE, points |-> points, complete |-> TRUE]
\* A file whose writing was cut short: the points written so far.
Partial(points) == [exists |-> TRUE, points |-> points, complete |-> FALSE]

Min(a, b) == IF a <= b THEN a ELSE b
Max(a, b) == IF a >= b THEN a ELSE b
Abs(a) == IF a < 0 THEN 0 - a ELSE a
Last(s) == s[Len(s)]
Front(s) == SubSeq(s, 1, Len(s) - 1)

----------------------------------------------------------------------------
(* Bounds of the model *)

\* No run issues more requests than this (the guard of MatchStep).
MaxRequests == 12
\* The number of times the tool is run on one file.
MaxRuns == 2

----------------------------------------------------------------------------
(* Program constants *)

DefaultChunkSize == 80
overlap == 5
RetryMinLen == 20

----------------------------------------------------------------------------
(* Geometry primitives *)

\* Integer part of the distance in metres.
haversine_distance(lat1, lon1, lat2, lon2) ==
  LET dlat == Abs(lat2 - lat1)
      dlon == Abs(lon2 - lon1)
  IN CHOOSE r \in Max(dlat, dlon)..(dlat + dlon) :
       /\ r * r <= dlat * dlat + dlon * dlon
       /\ (r + 1) * (r + 1) > dlat * dlat + dlon * dlon

\* fraction is the rational num / den.
interpolate_point(lat1, lon1, lat2, lon2, num, den) ==
  << lat1 + ((lat2 - lat1) * num) \div den,
     lon1 + ((lon2 - lon1) * num) \div den >>

----------------------------------------------------------------------------
(* Python list slicing s[i:j], negative indices included *)

PyIndex(n, k) ==
  IF k < 0 THEN (IF k + n < 0 THEN 0 ELSE k + n)
  ELSE (IF k > n THEN n ELSE k)

PySlice(s, i, j) ==
  LET lo == PyIndex(Len(s), i)
      hi == PyIndex(Len(s), j)
  IN IF lo >= hi THEN <<>> ELSE SubSeq(s, lo + 1, hi)

----------------------------------------------------------------------------
(* The map-matching service (external).  A response has a transport        *)
(* outcome, the "code" of its JSON body and the geometries of its          *)
(* matchings.  The kinds below are the answers the model lets the service  *)
(* give to a request for the coordinates `chunk`.                          *)

Response(status, code, matchings) ==
  [status |-> status, code |-> code, matchings |-> matchings]

FailureKinds ==
  {"connection_error", "timeout", "http_error", "no_match", "no_matchings",
   "empty_geometry"}
GeometryKinds == {"echo", "two_legs", "shifted", "single", "ends", "stutter"}

Shift(chunk) == [k \in 1..Len(chunk) |-> <<chunk[k][1], chunk[k][2] + 50>>]

ServiceAnswer(kind, chunk) ==
  LET n == Len(chunk)
      m == (n + 1) \div 2
  IN CASE kind = "connection_error" -> Response("connection_error", "", <<>>)
       [] kind = "timeout" -> Response("timeout", "", <<>>)
       [] kind = "http_error" -> Response("http_error", "NoMatch", <<>>)
       [] kind = "no_match" -> Response("ok", "NoMatch", <<>>)
       [] kind = "no_matchings" -> Response("ok", "Ok", <<>>)
       [] kind = "empty_geometry" -> Response("ok", "Ok", << <<>> >>)
       \* the matched path is the trace itself
       [] kind = "echo" -> Response("ok", "Ok", <<chunk>>)
       \* two matched sub-paths, the second starting where the first ends
       [] kind = "two_legs" ->
            Response("ok", "Ok", <<SubSeq(chunk, 1, m), SubSeq(chunk, m, n)>>)
       \* the trace snapped onto a road 5 m to the east
       [] kind = "shifted" -> Response("ok", "Ok", <<Shift(chunk)>>)
       \* everything snapped onto one point
       [] kind = "single" -> Response("ok", "Ok", << <<chunk[1]>> >>)
       \* a straight road between the two ends
       [] kind = "ends" -> Response("ok", "Ok", << <<chunk[1], chunk[n]>> >>)
       \* a path that repeats its first point
       [] kind = "stutter" -> Response("ok", "Ok", << <<chunk[1]>> \o chunk >>)

----------------------------------------------------------------------------
(* Map-Match Gateway: one request *)

\* The exception raised inside the try block, "" if none: requests.get raises
\* on a transport failure or a timeout, raise_for_status on an error status.
RaisedInTry(resp) ==
  CASE resp.status = "connection_error" -> "ConnectionError"
    [] resp.status = "timeout" -> "Timeout"
    [] resp.status = "http_error" -> "HTTPError"
    [] OTHER -> ""

\* except requests.RequestException: the classes the handler catches.
\* (Variant: a handler for ConnectionError alone.)
CaughtOnlyConnectionError(exc) == exc = "ConnectionError"
Caught(exc) == exc \in {"ConnectionError", "Timeout", "HTTPError"}

\* The body of the inner loop: a point equal to the last one kept is skipped.
\* (Variant: every point is kept.)
KeepPointAlways(all_coords, point) == Append(all_coords, point)
KeepPoint(all_coords, point) ==
  IF all_coords = <<>> \/ Last(all_coords) # point
    THEN Append(all_coords, point) ELSE all_coords

\* for coord in coordinates: the body applied to coordinates[lo..hi] in
\* order.  The range is halved instead of taken one by one, and the first
\* half is evaluated before the second is entered: the points are visited
\* in the same order and the evaluation stays shallow.
RECURSIVE AppendCoordinates(_, _, _, _)
AppendCoordinates(all_coords, coordinates, lo, hi) ==
  IF lo > hi THEN all_coords
  ELSE IF lo = hi THEN KeepPoint(all_coords, coordinates[lo])
  ELSE LET mid == (lo + hi) \div 2
       IN CHOOSE all \in
            {AppendCoordinates(first, coordinates, mid + 1, hi) :
               first \in {AppendCoordinates(all_coords, coordinates, lo, mid)}} :
            TRUE

RECURSIVE CombineMatchings(_, _)
CombineMatchings(all_coords, matchings) ==
  IF matchings = <<>> THEN all_coords
  ELSE CombineMatchings(
         AppendCoordinates(all_coords, Head(matchings), 1, Len(Head(matchings))),
         Tail(matchings))

call_osrm_match_chunk(coords, resp) ==
  IF Len(coords) < 2 THEN NONE
  ELSE LET exc == RaisedInTry(resp)
       IN IF exc # "" THEN (IF Caught(exc) THEN NONE ELSE Raise(exc))
          ELSE IF resp.code # "Ok" THEN NONE
          ELSE IF resp.matchings = <<>> THEN NONE
          ELSE LET all_coords == CombineMatchings(<<>>, resp.matchings)
               IN IF all_coords # <<>> THEN Geometry(all_coords) ELSE NONE

----------------------------------------------------------------------------
(* Map-Match Gateway: call_osrm_match, one activation record per call *)

Frame(coords, chunk_size) ==
  [coords |-> coords, chunk_size |-> chunk_size, i |-> 0, all_geometry |-> <<>>]

\* Entry of call_osrm_match: the stack and the pending value after the call
\* has started.
EnterMatch(stk, coords, chunk_size) ==
  IF Len(coords) < 2 THEN [stack |-> stk, ret |-> NONE]
  ELSE [stack |-> Append(stk, Frame(coords, chunk_size)), ret |-> NoRet]

Chunked(f) == Len(f.coords) > f.chunk_size
\* end = min(i + chunk_size, len(coords))
\* (Variant: one point fewer in each window.)
WindowEndShort(f) == Min(f.i + f.chunk_size - 1, Len(f.coords))
WindowEnd(f) == Min(f.i + f.chunk_size, Len(f.coords))
\* The coordinates of the next request of activation f.
Window(f) ==
  IF Chunked(f) THEN PySlice(f.coords, f.i, WindowEnd(f)) ELSE f.coords

\* if len(chunk) > 20
ShouldRetry(chunk) == Len(chunk) > RetryMinLen

\* chunk_size = len(chunk) // 2
\* (Variant: half the chunk size of the caller.)
RetryChunkSizeOfParent(chunk, chunk_size) == chunk_size \div 2
RetryChunkSize(chunk, chunk_size) == Len(chunk) \div 2

\* The body of the merge loop: a point equal to the last point of
\* all_geometry (as it grows) is skipped.
SkipIfLast(all_geometry, point) ==
  IF point # Last(all_geometry) THEN Append(all_geometry, point)
  ELSE all_geometry

\* for point in chunk_geometry: the body applied to chunk_geometry[lo..hi]
\* in order (the range is halved, as in AppendCoordinates).
RECURSIVE SkipEqualToLast(_, _, _, _)
SkipEqualToLast(all_geometry, chunk_geometry, lo, hi) ==
  IF lo > hi THEN all_geometry
  ELSE IF lo = hi THEN SkipIfLast(all_geometry, chunk_geometry[lo])
  ELSE LET mid == (lo + hi) \div 2
       IN CHOOSE all \in
            {SkipEqualToLast(first, chunk_geometry, mid + 1, hi) :
               first \in {SkipEqualToLast(all_geometry, chunk_geometry, lo, mid)}} :
            TRUE

MergeGeometry(all_geometry, chunk_geometry) ==
  IF all_geometry # <<>>
    THEN SkipEqualToLast(all_geometry, chunk_geometry, 1, Len(chunk_geometry))
  ELSE chunk_geometry

\* i = end - overlap if end < len(coords) else end
\* (Variant: one point more of overlap.)
NextStartOffByOne(end, n) == IF end < n THEN end - overlap - 1 ELSE end
NextStart(end, n) == IF end < n THEN end - overlap ELSE end

\* The rest of a loop iteration once chunk_geometry is known, and the loop
\* test that follows: the stack and the pending return value.
FinishIteration(stk, chunk_geometry) ==
  LET f == Last(stk)
      g == [f EXCEPT !.all_geometry = MergeGeometry(@, chunk_geometry),
                     !.i = NextStart(WindowEnd(f), Len(f.coords))]
  IN IF g.i < Len(g.coords)
       THEN [stack |-> Append(Front(stk), g), ret |-> NoRet]
       ELSE [stack |-> Front(stk),
             ret |-> IF g.all_geometry # <<>> THEN Geometry(g.all_geometry)
                     ELSE NONE]

\* What the innermost activation does with the answer to its request.
AfterRequest(stk, chunk, chunk_geometry) ==
  LET f == Last(stk)
  IN IF chunk_geometry.tag = "raise"
       THEN [stack |-> <<>>, ret |-> chunk_geometry]
     ELSE IF ~Chunked(f)
       THEN [stack |-> Front(stk), ret |-> chunk_geometry]
     ELSE IF chunk_geometry.tag = "None"
       THEN IF ShouldRetry(chunk)
              THEN EnterMatch(stk, chunk, RetryChunkSize(chunk, f.chunk_size))
              ELSE [stack |-> Front(stk), ret |-> NONE]
     ELSE FinishIteration(stk, chunk_geometry.geom)

\* What an activation does with the value of its recursive call.
AfterRetry(stk, smaller) ==
  IF Truthy(smaller) THEN FinishIteration(stk, smaller.geom)
  ELSE [stack |-> Front(stk), ret |-> NONE]

\* One request: the innermost call_osrm_match runs up to its next request,
\* the service answers, and the call runs on to its next request, to a
\* recursive call or to its return.
MatchStep ==
  /\ pc = "matching"
  /\ stack # <<>>
  /\ ret = NoRet
  /\ nreq < MaxRequests
  /\ \E chunk \in {Window(Last(stack))} :
       \E kind \in (IF Len(chunk) >= 2 THEN svc ELSE {"none"}) :
       \E resp \in {IF Len(chunk) >= 2 THEN ServiceAnswer(kind, chunk)
                    ELSE Response("", "", <<>>)} :
       \E chunk_geometry \in {call_osrm_match_chunk(chunk, resp)} :
       \E after \in {AfterRequest(stack, chunk, chunk_geometry)} :
          LET issued == Len(chunk) >= 2
          IN /\ stack' = after.stack
             /\ ret' = IF after.ret.tag = "raise" THEN NoRet ELSE after.ret
             /\ pc' = IF after.ret.tag = "raise" THEN "raised" ELSE pc
             /\ nreq' = IF issued THEN nreq + 1 ELSE nreq
             /\ last' = [chunk |-> chunk, kind |-> kind, resp |-> resp,
                         result |-> chunk_geometry,
                         depth |-> Len(stack), chunk_size |-> Last(stack).chunk_size,
                         chunked |-> Chunked(Last(stack))]
             /\ all_failed' = (all_failed /\ chunk_geometry.tag # "list")
             /\ all_echo' = (all_echo /\ kind = "echo")
  /\ UNCHANGED <<fileVars, routeVars, match_call, svc, otherVars>>

\* A recursive call_osrm_match has returned to the activation that made it.
MatchReturn ==
  /\ pc = "matching"
  /\ stack # <<>>
  /\ ret # NoRet
  /\ LET after == AfterRetry(stack, ret)
     IN /\ stack' = after.stack
        /\ ret' = after.ret
  /\ UNCHANGED <<fileVars, routeVars, pc, match_call, svc, nreq, last,
                 all_failed, all_echo, otherVars>>

NoSegment ==
  [coords |-> <<>>, geometry |-> NoRet, waypoints |-> <<>>, phase |-> "none"]

NoRequest ==
  [chunk |-> <<>>, kind |-> "none", resp |-> Response("", "", <<>>),
   result |-> NoRet, depth |-> 0, chunk_size |-> 0, chunked |-> FALSE]

\* Walk is the state of the walk between two legs: the waypoints placed so
\* far, the distance carried since the last one, whether the carried float
\* has reached the spacing (it can only where the distance carried is the
\* spacing), and the exception raised, if any ("" for none).
Walk(waypoints, accumulated_distance, reached, error) ==
  [waypoints |-> waypoints, accumulated_distance |-> accumulated_distance, reached |-> reached, error |-> error]

\* No call of interpolate_waypoints_along_geometry on its own.
NoResample ==
  [geometry |-> <<>>, spacing |-> 0, i |-> 0, walk |-> Walk(<<>>, 0, FALSE, ""),
   differs |-> FALSE, out |-> NoRet]

\* main is not running.
NoBatch ==
  [route_files |-> <<>>, dry_run |-> FALSE, at |-> "off", i |-> 0,
   success_count |-> 0, outcomes |-> <<>>, status |-> "none"]

----------------------------------------------------------------------------
(* The gateway called on its own: call_osrm_match(coords, url, chunk_size) *)

\* n distinct points, 5 m apart, going north.
Trace(n) == [k \in 1..n |-> <<50 * k, 0>>]

AllKinds == FailureKinds \cup GeometryKinds

\* The calls made: number of points, chunk_size, behaviour of the service.
MatchCalls ==
  {<<n, DefaultChunkSize, AllKinds>> : n \in {0, 1, 2, 4}}
  \cup {<<n, 6, {"echo", "two_legs", "shifted", "stutter", "timeout"}>> : n \in {8, 12}}
  \cup {<<13, 7, {"echo"}>>, <<9, 7, {"single", "ends", "no_match"}>>}
  \cup {<<10, cs, {"echo", "single"}>> : cs \in 1..5}
  \cup {<<n, 22, {"echo", "shifted", "http_error"}>> : n \in {38, 39}}
  \cup {<<30, 25, {"two_legs", "connection_error"}>>}
  \cup {<<30, 21, FailureKinds>>, <<30, 20, {"echo", "timeout"}>>}

InitMatch ==
  \E c \in MatchCalls :
    LET entered == EnterMatch(<<>>, Trace(c[1]), c[2])
    IN /\ match_call = [coords |-> Trace(c[1]), chunk_size |-> c[2]]
       /\ svc = c[3]
       /\ stack = entered.stack
       /\ ret = entered.ret
       /\ pc = "matching"
       /\ phase = "direct"
       /\ file = NoFile /\ bak = NoFile /\ spacing_m = 200 /\ backup = FALSE
       /\ result = "none" /\ route = <<>> /\ new_points = <<>>
       /\ seg_idx = 0 /\ next_id = 0 /\ last_segment = NoSegment
       /\ minted = <<>> /\ written = <<>>
       /\ resample = NoResample /\ batch = NoBatch
       /\ nreq = 0 /\ last = NoRequest
       /\ all_failed = TRUE /\ all_echo = TRUE

NextMatch == MatchStep \/ MatchReturn

\* Every request is answered or times out (timeout=60), and the program then
\* runs on: a step that can be taken is taken.
SpecMatch == InitMatch /\ [][NextMatch]_vars /\ WF_vars(NextMatch)

----------------------------------------------------------------------------
(* Spacing Interpolator *)

\* The coordinates and distances of the code are floats.  Where a computed
\* value falls exactly on the value it is compared with, the outcome of the
\* comparison depends on the rounding of the computation, and every outcome
\* is possible: "below", the sum of the while test comes out below the
\* spacing; "above", the sum reaches the spacing and the fraction comes out
\* above 1; "inexact", the fraction is at most 1 and the point placed
\* differs in its last bits from the point it falls on; "exact", it is that
\* point.
Roundings == {"exact", "inexact", "above", "below"}

\* `while accumulated_distance + remaining >= spacing_m`.  Where the sum is
\* exactly the spacing: with nothing remaining the sum is the carried float
\* itself, which has reached the spacing or has not; else the sum may be
\* computed below the spacing.
WhileTest(accumulated_distance, reached, remaining, spacing, rounding) ==
  \/ accumulated_distance + remaining > spacing
  \/ /\ accumulated_distance + remaining = spacing
     /\ IF remaining = 0 THEN reached ELSE rounding # "below"

\* `if fraction <= 1.0` (fraction is the numerator over segment_distance):
\* where the quotient is exactly 1 it may be computed above 1.
FractionFits(fraction, segment_distance, rounding) ==
  \/ fraction < segment_distance
  \/ fraction = segment_distance /\ rounding # "above"

\* The while loop over one leg.  segment_start and fraction are numerators
\* over segment_distance.  The result is the waypoints and the value of
\* accumulated_distance after `accumulated_distance += remaining`, which
\* has reached the spacing exactly when the loop was left by `break`;
\* dividing by a segment_distance of 0 raises ZeroDivisionError.
RECURSIVE PlaceAlongLeg(_, _, _, _, _, _, _, _, _, _)
PlaceAlongLeg(prev, curr, segment_distance, spacing, waypoints, accumulated_distance, reached, remaining, segment_start, rounding) ==
  IF WhileTest(accumulated_distance, reached, remaining, spacing, rounding)
    THEN LET distance_to_next == spacing - accumulated_distance
             fraction == segment_start + distance_to_next
         IN IF segment_distance = 0
              THEN Walk(waypoints, accumulated_distance, reached,
                        "ZeroDivisionError")
            ELSE IF FractionFits(fraction, segment_distance, rounding)
              THEN CHOOSE placed \in
                     {PlaceAlongLeg(prev, curr, segment_distance, spacing,
                                    more, 0, FALSE, rest, at, rounding) :
                        more \in {Append(waypoints,
                                         interpolate_point(prev[1], prev[2],
                                                           curr[1], curr[2],
                                                           fraction,
                                                           segment_distance))},
                        rest \in {remaining - distance_to_next},
                        at \in {fraction}} : TRUE
              ELSE Walk(waypoints, accumulated_distance + remaining, TRUE, "")
    ELSE Walk(waypoints, accumulated_distance + remaining, FALSE, "")

\* The body of the for loop for leg i (from point i to point i + 1); walk is
\* the state before the leg, the result the state after it.  Nothing runs
\* after an exception.
WalkLeg(geometry, i, spacing, walk, rounding) ==
  LET prev == geometry[i]
      curr == geometry[i + 1]
  IN IF walk.error # "" THEN walk
     ELSE CHOOSE placed \in
       {PlaceAlongLeg(prev, curr, segment_distance, spacing, walk.waypoints,
                      walk.accumulated_distance, walk.reached,
                      segment_distance, 0, rounding) :
          segment_distance \in
            {haversine_distance(prev[1], prev[2], curr[1], curr[2])}} : TRUE

\* for i in range(1, len(geometry)): the body applied to the legs lo..hi in
\* order (the range is halved, as in AppendCoordinates).  Every leg has its
\* own rounding, so the result is the set of the states the loop can end
\* in, from any of the states walks.
RECURSIVE WalkGeometry(_, _, _, _, _)
WalkGeometry(geometry, lo, hi, spacing, walks) ==
  IF lo > hi THEN walks
  ELSE IF lo = hi
    THEN {WalkLeg(geometry, lo, spacing, walk, rounding) :
            walk \in walks, rounding \in Roundings}
  ELSE LET mid == (lo + hi) \div 2
       IN CHOOSE all \in
            {WalkGeometry(geometry, mid + 1, hi, spacing, first) :
               first \in {WalkGeometry(geometry, lo, mid, spacing, walks)}} :
            TRUE

\* waypoints = [geometry[0]]; accumulated_distance = 0.0
StartWalk(geometry) == Walk(<<geometry[1]>>, 0, FALSE, "")

\* `waypoints[-1] != geometry[-1]`: the first waypoint is geometry[0]
\* itself; a later one is interpolated, and where it falls on the last
\* point of the geometry its floats may differ from those of that point.
DiffersFromFinal(waypoints, geometry, rounding) ==
  \/ Last(waypoints) # Last(geometry)
  \/ Len(waypoints) > 1 /\ rounding # "exact"

\* `if waypoints[-1] != geometry[-1]: waypoints.append(geometry[-1])`
\* (Variant: the final point is appended without the comparison.)
AppendFinalAlways(waypoints, geometry, rounding) ==
  Append(waypoints, Last(geometry))
AppendFinal(waypoints, geometry, rounding) ==
  IF DiffersFromFinal(waypoints, geometry, rounding)
    THEN Append(waypoints, Last(geometry)) ELSE waypoints

\* What the function returns once the for loop is over: the waypoints, or
\* the exception of the loop.
FinishWalk(geometry, walk, rounding) ==
  IF walk.error # "" THEN Raise(walk.error)
  ELSE Geometry(AppendFinal(walk.waypoints, geometry, rounding))

\* The values the function can return or raise, over the roundings of the
\* legs and of the last comparison.
interpolate_waypoints_along_geometry(geometry, spacing) ==
  IF Len(geometry) < 2 THEN {Geometry(geometry)}
  ELSE {FinishWalk(geometry, walk, rounding) :
          walk \in WalkGeometry(geometry, 1, Len(geometry) - 1, spacing,
                                {StartWalk(geometry)}),
          rounding \in Roundings}

----------------------------------------------------------------------------
(* The interpolator called on its own:                                     *)
(* interpolate_waypoints_along_geometry(geometry, spacing_m)               *)

\* The polylines resampled: none and one point; one leg shorter and one
\* longer than the spacing; bends; legs of length 0 at the start, in the
\* middle and at the end; a polyline that comes back to its first point, and
\* one that passes through its last point before it ends.
Polylines ==
  { <<>>,
    << <<5, 5>> >>,
    << <<0, 0>>, <<0, 20>> >>,
    << <<0, 0>>, <<0, 300>> >>,
    << <<0, 0>>, <<0, 120>>, <<90, 120>> >>,
    << <<0, 0>>, <<30, 40>>, <<30, 140>> >>,
    << <<0, 0>>, <<0, 30>>, <<40, 30>>, <<40, 60>> >>,
    << <<0, 0>>, <<0, 0>>, <<0, 250>> >>,
    << <<0, 0>>, <<0, 100>>, <<0, 100>>, <<0, 220>> >>,
    << <<0, 0>>, <<0, 100>>, <<0, 100>> >>,
    << <<0, 0>>, <<0, 100>>, <<0, 0>> >>,
    << <<0, 0>>, <<0, 100>>, <<0, 130>>, <<0, 100>> >>,
    << <<0, 0>>, <<60, 80>>, <<60, 130>>, <<0, 130>>, <<0, 180>> >> }

\* 5 m, 10 m and 20 m (the default).
ResampleSpacings == {50, 100, 200}

InitResample ==
  \E g \in Polylines, s \in ResampleSpacings :
    /\ resample = [geometry |-> g, spacing |-> s, i |-> 1,
                   walk |-> IF Len(g) < 2 THEN Walk(<<>>, 0, FALSE, "")
                            ELSE StartWalk(g),
                   differs |-> FALSE, out |-> NoRet]
    /\ pc = "resampling"
    /\ phase = "direct"
    /\ file = NoFile /\ bak = NoFile /\ spacing_m = s /\ backup = FALSE
    /\ result = "none" /\ route = <<>> /\ new_points = <<>>
    /\ seg_idx = 0 /\ next_id = 0 /\ last_segment = NoSegment
    /\ minted = <<>> /\ written = <<>> /\ batch = NoBatch
    /\ match_call = [coords |-> <<>>, chunk_size |-> DefaultChunkSize]
    /\ stack = <<>> /\ ret = NoRet /\ svc = {}
    /\ nreq = 0 /\ last = NoRequest
    /\ all_failed = TRUE /\ all_echo = TRUE

resampleOnly ==
  <<file, bak, spacing_m, backup, pc, result, route, new_points, phase,
    seg_idx, next_id, match_call, stack, ret, svc, nreq, last, all_failed,
    all_echo, last_segment, minted, written, batch>>

\* The for loop is over: every leg is walked, or an exception was raised.
WalkOver(r) ==
  Len(r.geometry) < 2 \/ r.i > Len(r.geometry) - 1 \/ r.walk.error # ""

\* One iteration of the for loop: leg i is walked.
ResampleLeg ==
  /\ pc = "resampling"
  /\ resample.out = NoRet
  /\ ~WalkOver(resample)
  /\ \E rounding \in Roundings :
     \E walk \in {WalkLeg(resample.geometry, resample.i, resample.spacing,
                          resample.walk, rounding)} :
        resample' = [resample EXCEPT !.walk = walk, !.i = @ + 1]
  /\ UNCHANGED resampleOnly

\* The function returns: the input if it has fewer than 2 points, else the
\* waypoints with the last point of the input, or it raises.
ResampleReturn ==
  /\ pc = "resampling"
  /\ resample.out = NoRet
  /\ WalkOver(resample)
  /\ \E rounding \in Roundings :
       resample' =
         [resample EXCEPT
            !.out = IF Len(resample.geometry) < 2
                      THEN Geometry(resample.geometry)
                    ELSE FinishWalk(resample.geometry, resample.walk,
                                    rounding),
            !.differs = Len(resample.geometry) >= 2
                        /\ resample.walk.error = ""
                        /\ DiffersFromFinal(resample.walk.waypoints,
                                            resample.geometry, rounding)]
  /\ UNCHANGED resampleOnly

NextResample == ResampleLeg \/ ResampleReturn

\* The function is sequential: a step that can be taken is taken.
SpecResample == InitResample /\ [][NextResample]_vars /\ WF_vars(NextResample)

----------------------------------------------------------------------------
(* Segment Normalizer: one segment *)

\* `int(dist / spacing_m)`: where dist is an exact multiple of the spacing
\* the float dist may fall just below it, and the quotient is one less.
IntQuotient(dist, spacing, rounding) ==
  IF dist % spacing = 0 /\ rounding = "below"
    THEN dist \div spacing - 1 ELSE dist \div spacing

\* The fallback: linear interpolation between the two endpoints.
LinearFallback(start, end, spacing, rounding) ==
  LET dist == haversine_distance(start[1], start[2], end[1], end[2])
  IN IF dist <= spacing THEN <<start, end>>
     ELSE LET num_points == Max(2, IntQuotient(dist, spacing, rounding) + 1)
          IN [k \in 1..num_points |->
                interpolate_point(start[1], start[2], end[1], end[2],
                                  k - 1, num_points - 1)]

\* normalize_segment, given what call_osrm_match returned: the lists it
\* can return and the exceptions of the interpolator, over the roundings.
\* (Variant: the original points are returned when there is no geometry.)
normalize_segment_OriginalOnFailure(segment_coords, spacing, geometry) ==
  IF Len(segment_coords) < 2 \/ geometry.tag = "None"
    THEN {Geometry(segment_coords)}
  ELSE interpolate_waypoints_along_geometry(geometry.geom, spacing)
normalize_segment(segment_coords, spacing, geometry) ==
  IF Len(segment_coords) < 2 THEN {Geometry(segment_coords)}
  ELSE IF geometry.tag = "None"
    THEN {Geometry(LinearFallback(segment_coords[1], Last(segment_coords),
                                  spacing, rounding)) :
            rounding \in Roundings}
  ELSE interpolate_waypoints_along_geometry(geometry.geom, spacing)

----------------------------------------------------------------------------
(* Segment Normalizer: the route *)

RoutePoint(id, name, lat, lon, kind) ==
  [id |-> id, name |-> name, latitude |-> lat, longitude |-> lon, kind |-> kind]

\* point.get("kind", "stop") == "stop"; kind "absent" is a point without
\* the key.
\* (Variant: a point without the key is no stop.)
IsStopDroppingAbsent(point) == point.kind = "stop"
IsStop(point) == (IF point.kind = "absent" THEN "stop" ELSE point.kind) = "stop"

\* stop_indices, 1-based.
StopIndices(points) ==
  SelectSeq([k \in 1..Len(points) |-> k], LAMBDA k : IsStop(points[k]))

Stops(points) == SelectSeq(points, IsStop)

Coordinates(points) ==
  [k \in 1..Len(points) |-> <<points[k].latitude, points[k].longitude>>]

\* generate_uuid7: the n-th identity minted; identities of the documents
\* are below 1000.
generate_uuid7(n) == 1000 + n

NewWaypoints(coords, count) ==
  [k \in 1..Len(coords) |->
     RoutePoint(generate_uuid7(count + k), "", coords[k][1], coords[k][2],
                "waypoint")]

\* The part of a normalized segment that normalize_route keeps.
\* (Variant: both ends are dropped in every part of the route.)
KeptWaypointsInterior(in_phase, waypoints) ==
  IF Len(waypoints) > 2 THEN SubSeq(waypoints, 2, Len(waypoints) - 1) ELSE <<>>
KeptWaypoints(in_phase, waypoints) ==
  CASE in_phase = "pre" ->       \* pre_waypoints[:-1]
         IF waypoints # <<>> THEN Front(waypoints) ELSE <<>>
    [] in_phase = "seg" ->       \* segment_waypoints[1:-1]
         IF waypoints # <<>> /\ Len(waypoints) > 2
           THEN SubSeq(waypoints, 2, Len(waypoints) - 1) ELSE <<>>
    [] in_phase = "post" ->      \* post_waypoints[1:]
         IF waypoints # <<>> THEN Tail(waypoints) ELSE <<>>

\* The loops `for lat, lon in ...: new_points.append({...})`.
\* (Variant: the waypoints are put in front of what is there.)
PrependWaypoints(np, waypoints) == waypoints \o np
AppendWaypoints(np, waypoints) == np \o waypoints

\* normalize_route from the top of iteration k of the loop over the stops
\* up to its next call of normalize_segment, or to its return.
ContinueAtStop(points, np, k) ==
  LET stop_indices == StopIndices(points)
      np2 == Append(np, points[stop_indices[k]])
  IN IF k < Len(stop_indices)
       THEN [new_points |-> np2, phase |-> "seg", seg_idx |-> k,
             coords |-> Coordinates(SubSeq(points, stop_indices[k],
                                           stop_indices[k + 1]))]
     ELSE IF stop_indices[k] < Len(points)
       THEN [new_points |-> np2, phase |-> "post", seg_idx |-> k,
             coords |-> Coordinates(SubSeq(points, stop_indices[k], Len(points)))]
     ELSE [new_points |-> np2, phase |-> "return", seg_idx |-> k, coords |-> <<>>]

\* normalize_route from its entry (at least 2 stops) up to its first call of
\* normalize_segment.
EnterRoute(points) ==
  LET stop_indices == StopIndices(points)
  IN IF stop_indices[1] > 1
       THEN [new_points |-> <<>>, phase |-> "pre", seg_idx |-> 0,
             coords |-> Coordinates(SubSeq(points, 1, stop_indices[1]))]
       ELSE ContinueAtStop(points, <<>>, 1)

\* normalize_route after the segment of phase `in_phase` is normalized.
AfterSegment(points, np, in_phase, k) ==
  CASE in_phase = "pre" -> ContinueAtStop(points, np, 1)
    [] in_phase = "seg" -> ContinueAtStop(points, np, k + 1)
    [] in_phase = "post" ->
         [new_points |-> np, phase |-> "return", seg_idx |-> k, coords |-> <<>>]

\* Fewer than 2 points, or fewer than 2 stops: normalize_route returns None.
\* (Variant: one stop is enough.)
RejectedFewerThanOneStop(points) ==
  Len(points) < 2 \/ Len(StopIndices(points)) < 1
Rejected(points) == Len(points) < 2 \/ Len(StopIndices(points)) < 2

\* The call of normalize_segment(coords): up to the first request of
\* call_osrm_match(coords, osrm_url), chunk_size at its default.
CallSegment(to, coords) ==
  LET entered == EnterMatch(<<>>, coords, DefaultChunkSize)
  IN /\ new_points' = to.new_points
     /\ phase' = to.phase
     /\ seg_idx' = to.seg_idx
     /\ match_call' = [coords |-> coords, chunk_size |-> DefaultChunkSize]
     /\ stack' = entered.stack
     /\ ret' = entered.ret
     /\ pc' = "matching"

ReturnRoute(to) ==
  /\ new_points' = to.new_points
  /\ phase' = to.phase
  /\ seg_idx' = to.seg_idx
  /\ stack' = <<>>
  /\ ret' = NoRet
  /\ pc' = "normalized"
  /\ UNCHANGED match_call

\* process_route_file reads the document and calls normalize_route, which
\* rejects the route or runs to its first request.  json.load raises on a
\* file that is no complete document.
ProcessStart ==
  /\ pc = "start"
  /\ IF ~file.complete
       THEN /\ pc' = "raised"
            /\ UNCHANGED <<route, result, new_points, phase, seg_idx,
                           match_call, stack, ret>>
       ELSE /\ route' = file.points
            /\ IF Rejected(file.points)
                 THEN /\ result' = "False"
                      /\ pc' = "done"
                      /\ UNCHANGED <<new_points, phase, seg_idx, match_call,
                                     stack, ret>>
                 ELSE /\ \E to \in {EnterRoute(file.points)} :
                           CallSegment(to, to.coords)
                      /\ UNCHANGED result
  /\ UNCHANGED <<file, bak, spacing_m, backup, next_id, svc, nreq, last,
                 all_failed, all_echo, last_segment, minted, written,
                 otherVars>>

\* call_osrm_match has returned to normalize_segment: the segment is
\* resampled (or interpolated linearly), its points are appended, and
\* normalize_route runs on to its next request or to its return.
SegmentReturn ==
  /\ pc = "matching"
  /\ phase \in {"pre", "seg", "post"}
  /\ stack = <<>>
  /\ ret # NoRet
  /\ \E returned \in normalize_segment(match_call.coords, spacing_m, ret) :
       IF returned.tag = "raise"
         THEN /\ pc' = "raised"
              /\ UNCHANGED <<new_points, phase, seg_idx, next_id,
                             last_segment, minted, match_call, stack, ret>>
         ELSE \E waypoints \in {returned.geom} :
              \E kept \in {KeptWaypoints(phase, waypoints)} :
              \E np \in {AppendWaypoints(new_points,
                                         NewWaypoints(kept, next_id))} :
              \E to \in {AfterSegment(route, np, phase, seg_idx)} :
                 /\ next_id' = next_id + Len(kept)
                 /\ minted' = minted \o [k \in 1..Len(kept) |->
                                           [phase |-> phase,
                                            seg_idx |-> seg_idx]]
                 /\ last_segment' = [coords |-> match_call.coords,
                                     geometry |-> ret,
                                     waypoints |-> waypoints,
                                     phase |-> phase]
                 /\ IF to.phase = "return" THEN ReturnRoute(to)
                    ELSE CallSegment(to, to.coords)
  /\ UNCHANGED <<fileVars, route, svc, nreq, last, all_failed, all_echo,
                 otherVars>>

----------------------------------------------------------------------------
(* process_route_file after normalize_route *)

CountStops(points) == Len(Stops(points))

\* Verify stops are preserved.
VerifyStops ==
  /\ pc = "normalized"
  /\ IF CountStops(new_points) # CountStops(route)
       THEN pc' = "done" /\ result' = "False"
       ELSE pc' = "backup" /\ UNCHANGED result
  /\ UNCHANGED <<file, bak, spacing_m, backup, written, routeVars,
                 match_call, stack, ret, svc, nreq, last, all_failed,
                 all_echo, otherVars>>

\* if backup: shutil.copy(input_path, backup_path)
CreateBackup ==
  /\ pc = "backup"
  /\ bak' = IF backup THEN file ELSE bak
  /\ pc' = "write"
  /\ UNCHANGED <<file, spacing_m, backup, result, written, routeVars,
                 match_call, stack, ret, svc, nreq, last, all_failed,
                 all_echo, otherVars>>

\* shutil.copy raises (an I/O error, a full disk): the backup file is as it
\* was, or holds the points of the old document copied so far, or the whole
\* of it when only the copy of the permission bits failed; the exception
\* leaves process_route_file before the route file is opened.
BackupFails ==
  /\ pc = "backup"
  /\ backup
  /\ \/ bak' = bak
     \/ \E n \in 0..Len(file.points) :
          bak' = Partial(SubSeq(file.points, 1, n))
     \/ bak' = file
  /\ pc' = "raised"
  /\ UNCHANGED <<file, spacing_m, backup, result, written, routeVars,
                 match_call, stack, ret, svc, nreq, last, all_failed,
                 all_echo, otherVars>>

\* Write normalized route.
WriteRoute ==
  /\ pc = "write"
  /\ file' = Document(new_points)
  /\ written' = Append(written, new_points)
  /\ result' = "True"
  /\ pc' = "done"
  /\ UNCHANGED <<bak, spacing_m, backup, routeVars, match_call, stack, ret,
                 svc, nreq, last, all_failed, all_echo, otherVars>>

\* The writing raises (an I/O error, a full disk): open(input_path, "w")
\* raises and the file is as it was, or it has emptied the file and
\* json.dump raises with the points written so far in the file, or
\* f.write("\n") or the close of the file raises with the whole document in
\* it.  The exception leaves process_route_file.
WriteFails ==
  /\ pc = "write"
  /\ \/ file' = file
     \/ \E n \in 0..Len(new_points) :
          file' = Partial(SubSeq(new_points, 1, n))
     \/ file' = Document(new_points)
  /\ pc' = "raised"
  /\ UNCHANGED <<bak, spacing_m, backup, result, written, routeVars,
                 match_call, stack, ret, svc, nreq, last, all_failed,
                 all_echo, otherVars>>

\* The tool is run once more, on the file it has just written, with the
\* same arguments.
RunAgain ==
  /\ pc = "done"
  /\ result = "True"
  /\ Len(written) < MaxRuns
  /\ pc' = "start"
  /\ result' = "none"
  /\ nreq' = 0
  /\ UNCHANGED <<file, bak, spacing_m, backup, written, routeVars,
                 match_call, stack, ret, svc, last, all_failed, all_echo,
                 otherVars>>

----------------------------------------------------------------------------
(* The runs of process_route_file that are checked *)

Stop(id, lat, lon) == RoutePoint(id, "stop", lat, lon, "stop")
Bare(id, lat, lon) == RoutePoint(id, "stop", lat, lon, "absent")
Way(id, lat, lon) == RoutePoint(id, "", lat, lon, "waypoint")

\* Two stops 110 m apart.
RouteA == <<Stop(1, 0, 0), Stop(2, 0, 1100)>>
\* A lead-in of 50 m, a bend between the stops (66 m north, then 88 m east:
\* 110 m in a straight line), a trail-out of 50 m.
RouteB == <<Way(1, 0, 0), Stop(2, 0, 500), Way(3, 660, 500), Stop(4, 660, 1380),
            Way(5, 660, 1880)>>
\* Three stops: one without "kind", two at the same place, then a bend of
\* 40 m east and 30 m north (50 m in a straight line).
RouteC == <<Bare(1, 0, 0), Stop(2, 0, 0), Way(3, 0, 400), Stop(4, 300, 400)>>
\* One stop only.
RouteD == <<Way(1, 0, 0), Stop(2, 0, 600), Way(3, 0, 1200)>>
\* One point only.
RouteE == <<Stop(1, 0, 0)>>
\* Two stops 40 m apart: twice the default spacing.
RouteG == <<Stop(1, 0, 0), Stop(2, 0, 400)>>
\* Two stops 410 m apart with 80 waypoints between them, every 5 m: 82
\* points, more than one request can carry.
RouteF ==
  [k \in 1..82 |-> IF k = 1 THEN Stop(k, 0, 0)
                   ELSE IF k = 82 THEN Stop(k, 4100, 0)
                   ELSE Way(k, 50 * (k - 1), 0)]

\* 20 m (the default) and 40 m.
Spacings == {200, 400}

\* The documents processed, each with the behaviours of the service.
Runs ==
  ({RouteA, RouteB, RouteC} \X {AllKinds, FailureKinds})
  \cup ({RouteD, RouteE, <<>>} \X {AllKinds})
  \cup ({RouteG} \X {{"echo", "timeout"}})
  \cup ({RouteF} \X {{"echo", "timeout"}, {"no_match"}})

InitRun(runs) ==
  \E r \in runs, s \in Spacings, b \in BOOLEAN :
    /\ file = Document(r[1])
    /\ svc = r[2]
    /\ spacing_m = s
    /\ backup = b
    /\ bak = NoFile
    /\ pc = "start"
    /\ result = "none"
    /\ route = <<>> /\ new_points = <<>> /\ phase = "idle" /\ seg_idx = 0
    /\ next_id = 0 /\ last_segment = NoSegment /\ minted = <<>>
    /\ written = <<>> /\ resample = NoResample /\ batch = NoBatch
    /\ match_call = [coords |-> <<>>, chunk_size |-> DefaultChunkSize]
    /\ stack = <<>> /\ ret = NoRet
    /\ nreq = 0 /\ last = NoRequest
    /\ all_failed = TRUE /\ all_echo = TRUE

Init == InitRun(Runs)

Next ==
  \/ ProcessStart
  \/ MatchStep
  \/ MatchReturn
  \/ SegmentReturn
  \/ VerifyStops
  \/ CreateBackup
  \/ BackupFails
  \/ WriteRoute
  \/ WriteFails

\* The program is sequential and every request is answered or times out:
\* a step that can be taken is taken.
Spec == Init /\ [][Next]_vars /\ WF_vars(Next)

\* The documents normalized more than once: the service fails every
\* request, or answers some of them, with the points it was sent or with
\* points beside them.
RunsAgain ==
  ({RouteA, RouteB, RouteC}
     \X {FailureKinds, {"echo", "timeout"}, {"shifted", "no_match"}})
  \cup ({RouteF} \X {{"no_match"}})

InitAgain == InitRun(RunsAgain)

NextAgain == Next \/ RunAgain

SpecAgain == InitAgain /\ [][NextAgain]_vars /\ WF_vars(NextAgain)


----------------------------------------------------------------------------
(* main: the loop over the route files *)

processVars ==
  <<file, bak, spacing_m, backup, pc, result, route, new_points, phase,
    seg_idx, next_id, match_call, stack, ret, svc, nreq, last, all_failed,
    all_echo, last_segment, minted, written, resample>>

\* What the loop has done with file i.
Outcome(i, outcome) == [i |-> i, outcome |-> outcome]

\* `if not route_files: ... sys.exit(1)`, else the loop is entered.
MainBegin ==
  /\ batch.at = "begin"
  /\ batch' = IF batch.route_files = <<>>
                THEN [batch EXCEPT !.at = "exited", !.status = "1"]
                ELSE [batch EXCEPT !.at = "loop", !.i = 1]
  /\ UNCHANGED processVars

\* One iteration of `for route_file in route_files` up to the call of
\* process_route_file: a missing file is skipped, a dry run only loads the
\* document and counts it.
MainNextFile ==
  /\ batch.at = "loop"
  /\ batch.i <= Len(batch.route_files)
  /\ LET route_file == batch.route_files[batch.i]
     IN IF ~route_file.exists
          THEN /\ batch' = [batch EXCEPT
                              !.outcomes = Append(@, Outcome(batch.i, "missing")),
                              !.i = @ + 1]
               /\ UNCHANGED processVars
        ELSE IF batch.dry_run
          THEN /\ batch' =
                    IF route_file.complete
                      THEN [batch EXCEPT
                              !.outcomes = Append(@, Outcome(batch.i, "ok")),
                              !.success_count = @ + 1,
                              !.i = @ + 1]
                      ELSE [batch EXCEPT
                              !.outcomes = Append(@, Outcome(batch.i, "raised")),
                              !.at = "exited", !.status = "1"]
               /\ UNCHANGED processVars
        ELSE /\ batch' = [batch EXCEPT !.at = "file"]
             /\ file' = route_file
             /\ bak' = NoFile
             /\ pc' = "start"
             /\ result' = "none"
             /\ nreq' = 0 /\ last' = NoRequest
             /\ all_failed' = TRUE /\ all_echo' = TRUE
             /\ UNCHANGED <<spacing_m, backup, route, new_points, phase,
                            seg_idx, next_id, match_call, stack, ret, svc,
                            last_segment, minted, written, resample>>

\* process_route_file has returned: `success_count += 1` if it returned True.
MainCollect ==
  /\ batch.at = "file"
  /\ pc = "done"
  /\ batch' = [batch EXCEPT
                 !.outcomes = Append(@, Outcome(batch.i,
                                                IF result = "True" THEN "ok"
                                                ELSE "failed")),
                 !.success_count = IF result = "True" THEN @ + 1 ELSE @,
                 !.i = @ + 1,
                 !.at = "loop"]
  /\ pc' = "idle"
  /\ UNCHANGED <<file, bak, spacing_m, backup, result, route, new_points,
                 phase, seg_idx, next_id, match_call, stack, ret, svc, nreq,
                 last, all_failed, all_echo, last_segment, minted, written,
                 resample>>

\* process_route_file has raised: nothing in main catches the exception,
\* the interpreter prints the traceback and exits with status 1.
MainRaised ==
  /\ batch.at = "file"
  /\ pc = "raised"
  /\ batch' = [batch EXCEPT
                 !.outcomes = Append(@, Outcome(batch.i, "raised")),
                 !.at = "exited", !.status = "1"]
  /\ pc' = "idle"
  /\ UNCHANGED <<file, bak, spacing_m, backup, result, route, new_points,
                 phase, seg_idx, next_id, match_call, stack, ret, svc, nreq,
                 last, all_failed, all_echo, last_segment, minted, written,
                 resample>>

\* The loop is over: `if success_count < len(route_files): sys.exit(1)`.
MainExit ==
  /\ batch.at = "loop"
  /\ batch.i > Len(batch.route_files)
  /\ batch' = [batch EXCEPT
                 !.at = "exited",
                 !.status = IF batch.success_count < Len(batch.route_files)
                              THEN "1" ELSE "0"]
  /\ UNCHANGED processVars

\* The lists of route files: none; one file; a missing file; a route of one
\* stop before a good one; a file that is no complete document before a good
\* one; two good ones; a route of 82 points.
RouteLists ==
  { <<>>,
    <<Document(RouteA)>>,
    <<NoFile>>,
    <<NoFile, Document(RouteA)>>,
    <<Document(RouteD), Document(RouteA)>>,
    <<Partial(<<>>), Document(RouteA)>>,
    <<Document(RouteA), Document(RouteB), Document(RouteE)>>,
    <<Document(RouteF)>> }

InitBatch ==
  \E files \in RouteLists, dry \in BOOLEAN, b \in BOOLEAN :
    /\ batch = [route_files |-> files, dry_run |-> dry, at |-> "begin",
                i |-> 0, success_count |-> 0, outcomes |-> <<>>,
                status |-> "none"]
    /\ svc = {"echo", "timeout"}
    /\ spacing_m = 200
    /\ backup = b
    /\ file = NoFile /\ bak = NoFile
    /\ pc = "idle"
    /\ result = "none"
    /\ route = <<>> /\ new_points = <<>> /\ phase = "idle" /\ seg_idx = 0
    /\ next_id = 0 /\ last_segment = NoSegment /\ minted = <<>>
    /\ written = <<>> /\ resample = NoResample
    /\ match_call = [coords |-> <<>>, chunk_size |-> DefaultChunkSize]
    /\ stack = <<>> /\ ret = NoRet
    /\ nreq = 0 /\ last = NoRequest
    /\ all_failed = TRUE /\ all_echo = TRUE

NextBatch ==
  \/ MainBegin
  \/ MainNextFile
  \/ MainCollect
  \/ MainRaised
  \/ MainExit
  \/ ProcessStart
  \/ MatchStep
  \/ MatchReturn
  \/ SegmentReturn
  \/ VerifyStops
  \/ CreateBackup
  \/ BackupFails
  \/ WriteRoute
  \/ WriteFails

\* main is sequential: a step that can be taken is taken.
SpecBatch == InitBatch /\ [][NextBatch]_vars /\ WF_vars(NextBatch)

----------------------------------------------------------------------------
(* Properties of the Segment Normalizer *)

\* A stop-kind point: kind "stop", or no kind at all.
StopKind(point) == point.kind \in {"stop", "absent"}

\* normalize_route has returned a route to process_route_file.
Normalized == pc \in {"normalized", "backup", "write"}

\* C1 (stop preservation): whatever the matching service answers, the route
\* that normalize_route returns for a route of at least 2 stops has, as its
\* stop-kind points in order, exactly the stop-kind points of the input, each
\* unchanged in identity, name, coordinates and kind; and a route of at
\* least 2 stops (and 2 points) is never rejected.
C1_StopPreservation ==
  /\ Normalized => SelectSeq(new_points, StopKind) = SelectSeq(route, StopKind)
  /\ pc = "done" /\ Len(SelectSeq(route, StopKind)) >= 2 => result = "True"

\* A route with a stop without "kind", a lead-in of nothing and a bend has
\* been normalized with the help of the service, waypoints were minted.
C1_Witness ==
  /\ pc = "normalized"
  /\ route = RouteC
  /\ ~all_failed
  /\ \E k \in 1..Len(new_points) : new_points[k].kind = "waypoint"
  /\ Len(SelectSeq(new_points, StopKind)) = 3

\* C2 (state unchanged on failure): a document of fewer than 2 points or of
\* fewer than 2 stop-kind points, or a normalized route whose stop count
\* differs, makes process_route_file return False, and when it returns False
\* the document is what it was and no backup exists.
C2_UnchangedOnFailure ==
  /\ pc = "done" /\ (Len(route) < 2 \/ Len(SelectSeq(route, StopKind)) < 2)
       => result = "False"
  /\ pc \in {"backup", "write"} \/ result = "True"
       => Len(SelectSeq(new_points, StopKind)) = Len(SelectSeq(route, StopKind))
  /\ result = "False" => pc = "done" /\ file = Document(route) /\ bak = NoFile

\* process_route_file has returned False for a document of three points and
\* one stop, with a backup asked for.
C2_Witness ==
  /\ pc = "done" /\ result = "False"
  /\ route = RouteD /\ backup
  /\ file = Document(RouteD) /\ bak = NoFile

\* The squared length of q - p, the cross product of (b - a) and (p - a),
\* and the dot product of (b - a) and (p - a).
SqDist(p, q) == (q[1] - p[1]) * (q[1] - p[1]) + (q[2] - p[2]) * (q[2] - p[2])
Cross(a, b, p) == (b[1] - a[1]) * (p[2] - a[2]) - (b[2] - a[2]) * (p[1] - a[1])
Along(a, b, p) == (b[1] - a[1]) * (p[1] - a[1]) + (b[2] - a[2]) * (p[2] - a[2])
Position(point) == <<point.latitude, point.longitude>>

\* Every point between two consecutive stops of `points` lies on the
\* straight line between the two stops, strictly between them, and the
\* points follow one another from the first stop to the second.
StraightBetweenStops(points) ==
  \A a, b \in 1..Len(points) :
    (/\ a < b
     /\ StopKind(points[a]) /\ StopKind(points[b])
     /\ \A m \in (a + 1)..(b - 1) : ~StopKind(points[m]))
    => \A k \in (a + 1)..(b - 1) :
         LET from == Position(points[a])
             to == Position(points[b])
         IN /\ Cross(from, to, Position(points[k])) = 0
            /\ Along(from, to, Position(points[k - 1]))
                 < Along(from, to, Position(points[k]))
            /\ Along(from, to, Position(points[k])) < SqDist(from, to)

\* C3 (fallback correctness): when the service fails for every request,
\* normalize_route still returns a route (never failure), and in it the
\* waypoints between two consecutive stops lie on the straight line between
\* the two stops, ordered from the first stop to the second.
C3_FallbackStraight ==
  /\ Normalized /\ all_failed => StraightBetweenStops(new_points)
  /\ pc = "done" /\ all_failed /\ Len(SelectSeq(route, StopKind)) >= 2
       /\ Len(route) >= 2
       => result = "True" /\ StraightBetweenStops(file.points)

\* The route with a bend between its stops has been normalized at 20 m
\* without one answer from the service: four waypoints between the stops.
C3_Witness ==
  /\ pc = "normalized" /\ all_failed /\ nreq >= 3
  /\ route = RouteB /\ spacing_m = 200
  /\ \E a \in 1..Len(new_points) :
       /\ new_points[a] = RouteB[2] /\ a + 5 <= Len(new_points)
       /\ new_points[a + 5] = RouteB[4]
       /\ Position(new_points[a + 1]) = <<132, 676>>

\* The least k with k * spacing >= the distance from p to q.
CeilOfRatio(p, q, spacing) ==
  CHOOSE k \in 0..(SqDist(p, q) + 1) :
    /\ k * k * spacing * spacing >= SqDist(p, q)
    /\ k > 0 => (k - 1) * (k - 1) * spacing * spacing < SqDist(p, q)

\* normalize_segment has just returned for a segment of at least 2 points
\* for which call_osrm_match returned None.
FellBack ==
  /\ last_segment.phase # "none"
  /\ Len(last_segment.coords) >= 2
  /\ last_segment.geometry = NONE

\* C4 (fallback spacing), as the specification states it: in the fallback
\* path, endpoints at most `spacing` apart give exactly the two endpoints;
\* otherwise ceil(d / spacing) + 1 points are returned, first and last the
\* endpoints, the sub-intervals equal and none longer than spacing.
C4_FallbackSpacing ==
  FellBack =>
    LET start == last_segment.coords[1]
        end == Last(last_segment.coords)
        w == last_segment.waypoints
        s == spacing_m
    IN IF SqDist(start, end) <= s * s
         THEN w = <<start, end>>
         ELSE /\ Len(w) = CeilOfRatio(start, end, s) + 1
              /\ w[1] = start /\ Last(w) = end
              /\ \A k \in 1..(Len(w) - 1) :
                   /\ SqDist(w[k], w[k + 1]) = SqDist(w[1], w[2])
                   /\ SqDist(w[k], w[k + 1]) <= s * s

\* C5 (segment endpoints preserved), as the specification states it: for a
\* segment of at least 2 points, the list normalize_segment returns begins
\* with the first input point and ends with the last, matched or not.
C5_EndpointsPreserved ==
  last_segment.phase # "none" /\ Len(last_segment.coords) >= 2 =>
    /\ Head(last_segment.waypoints) = last_segment.coords[1]
    /\ Last(last_segment.waypoints) = Last(last_segment.coords)


----------------------------------------------------------------------------
(* Properties of the Map-Matching Gateway *)

\* The outermost call_osrm_match has returned.
Returned == stack = <<>> /\ ret # NoRet

\* C6 (failure is a value): call_osrm_match returns None for fewer than 2
\* points without a request; a request that meets a connection error, a
\* timeout, an HTTP error status, a non-success status code or an empty set
\* of matchings yields None, which a call of a single window returns; and no
\* error leaves the gateway.
C6_FailureIsNone ==
  /\ pc # "raised" /\ ret.tag # "raise"
  /\ Len(match_call.coords) < 2 => Returned /\ ret = NONE /\ nreq = 0
  /\ last.kind \in {"connection_error", "timeout", "http_error", "no_match",
                    "no_matchings"}
       => /\ last.result = NONE
          /\ ~last.chunked => Returned /\ ret = NONE

\* A call of a single window has returned None after its request timed out.
C6_Witness ==
  /\ Returned /\ ret = NONE /\ nreq = 1
  /\ last.kind = "timeout" /\ ~last.chunked /\ Len(last.chunk) = 4

\* The step in which a window's request of a chunked call fails.
WindowFails ==
  /\ nreq' = nreq + 1
  /\ last'.chunked
  /\ last'.result = NONE

\* A recursive call on the failed window starts, with the given chunk size.
RetriesWith(size) ==
  /\ Len(stack') = Len(stack) + 1
  /\ Front(stack') = stack
  /\ Last(stack') = [coords |-> last'.chunk, chunk_size |-> size, i |-> 0,
                     all_geometry |-> <<>>]
  /\ ret' = NoRet

\* The activation on top of the stack returns None, whatever it had merged.
GivesUp == stack' = Front(stack) /\ ret' = NONE

\* A recursive call hands None to the activation that made it.
RetryFailed == pc = "matching" /\ stack # <<>> /\ ret = NONE

\* C7 (chunk retry), amended: when a request for a window of a chunked call
\* fails and the window has more than 20 points, the same window is retried
\* recursively with the chunk size set to half the length of the window;
\* when the window has 20 points or fewer, or the retry fails, the call
\* returns None and what was merged before is dropped.
C7_RetryHalvesWindow ==
  [][/\ WindowFails =>
          IF Len(last'.chunk) > 20
            THEN RetriesWith(Len(last'.chunk) \div 2)
            ELSE GivesUp
     /\ RetryFailed => GivesUp]_vars

\* C7 (chunk retry), as the specification states it: the retry uses the
\* chunk size chunkSize / 2.
C7_RetryHalvesChunkSize ==
  [][/\ WindowFails =>
          IF Len(last'.chunk) > 20
            THEN RetriesWith(last'.chunk_size \div 2)
            ELSE GivesUp
     /\ RetryFailed => GivesUp]_vars

\* 38 points in windows of 22: the first window was matched, the second,
\* of 21 points, failed and was retried in windows of 10, of which the
\* first failed: call_osrm_match has returned None.
C7_Witness ==
  /\ Returned /\ ret = NONE
  /\ Len(match_call.coords) = 38 /\ match_call.chunk_size = 22
  /\ ~all_failed /\ nreq = 3
  /\ last.depth = 2 /\ last.chunk_size = 10 /\ Len(last.chunk) = 10

\* The number of times a chunk size can be halved by a retry: a window that
\* is retried has more than 20 points and at most chunk_size.
RECURSIVE Halvings(_)
Halvings(chunk_size) ==
  IF chunk_size <= 20 THEN 0 ELSE 1 + Halvings(chunk_size \div 2)

DepthBounded == Len(stack) <= 1 + Halvings(match_call.chunk_size)

\* The loop of the activation on top of the stack goes on to its next
\* window: the window start has grown.
Advances ==
  (/\ stack # <<>>
   /\ Len(stack') = Len(stack)
   /\ Last(stack') # Last(stack))
  => Last(stack').i > Last(stack).i

\* C8 (termination), amended: for every chunk size above 5 and every
\* pattern of success and failure of the requests, call_osrm_match returns:
\* the window start strictly advances and the depth of the recursion is
\* bounded.
C8_TerminatesAboveOverlap ==
  /\ [](match_call.chunk_size > 5 => DepthBounded)
  /\ [][match_call.chunk_size > 5 => Advances]_vars
  /\ (match_call.chunk_size > 5) ~> Returned

\* C8 (termination), as the specification states it: the same for every
\* chunk size from 1 on.
C8_TerminatesFromOne ==
  /\ [](match_call.chunk_size >= 1 => DepthBounded)
  /\ [][match_call.chunk_size >= 1 => Advances]_vars
  /\ (match_call.chunk_size >= 1) ~> Returned

\* 39 points in windows of 22: both windows failed and were retried in
\* windows of 11, which were matched; call_osrm_match has returned.
C8_Witness ==
  /\ Returned /\ ret.tag = "list"
  /\ Len(match_call.coords) = 39 /\ match_call.chunk_size = 22
  /\ nreq = 8 /\ last.depth = 2

\* C9 (overlap merged once), as the specification states it: for pairwise
\* distinct input points, more of them than chunkSize, and a service that
\* answers every window with the window's own points, the merged geometry is
\* the input sequence: each point once, in order.
C9_OverlapMergedOnce ==
  (/\ Returned
   /\ nreq > 0 /\ all_echo
   /\ match_call.chunk_size > 5
   /\ Len(match_call.coords) > match_call.chunk_size)
  => ret = Geometry(match_call.coords)

NoAdjacentDuplicates(geometry) ==
  \A k \in 1..(Len(geometry) - 1) : geometry[k] # geometry[k + 1]

\* C10 (no adjacent duplicates): the point sequence that a request, a
\* recursive call or the outermost call of call_osrm_match returns, and the
\* geometry merged so far, never hold the same coordinate pair twice in a row.
C10_NoAdjacentDuplicates ==
  /\ NoAdjacentDuplicates(ret.geom)
  /\ NoAdjacentDuplicates(last.result.geom)
  /\ \A d \in 1..Len(stack) : NoAdjacentDuplicates(stack[d].all_geometry)

\* A chunked call has returned a geometry whose last window the service
\* answered with two matchings that meet in one point.
C10_Witness ==
  /\ Returned /\ ret.tag = "list"
  /\ last.chunked /\ last.kind = "two_legs"
  /\ \E k \in 1..(Len(last.resp.matchings) - 1) :
       Last(last.resp.matchings[k]) = Head(last.resp.matchings[k + 1])
  /\ Len(ret.geom) > Len(match_call.coords)


\* An activation that splits its input into windows, with a chunk size
\* above the overlap.
Windowed(f) == Len(f.coords) > f.chunk_size /\ f.chunk_size > overlap

\* C17 (window layout): in a call whose input is longer than its chunk size
\* (chunk size above 5), every window sent is a contiguous range of the
\* input; the first starts at index 0; a window holds exactly chunk-size
\* points unless it ends at the last input point; the window after it
\* starts exactly 5 points before its end; the call returns a geometry only
\* after a window that ends at the last input point; and every window holds
\* at least 6 points.
C17_WindowLayout ==
  [][ /\ nreq' = nreq + 1 /\ Windowed(Last(stack)) =>
           LET f == Last(stack)
               w == last'.chunk
           IN /\ w = [k \in 1..Len(w) |-> f.coords[f.i + k]]
              /\ f.i + Len(w) <= Len(f.coords)
              /\ nreq = 0 => f.i = 0
              /\ \/ Len(w) = f.chunk_size
                 \/ Len(w) < f.chunk_size /\ f.i + Len(w) = Len(f.coords)
              /\ Len(w) >= overlap + 1
      /\ Len(stack') > Len(stack) => Last(stack').i = 0
      /\ \A d \in 1..Min(Len(stack), Len(stack')) :
           Windowed(stack[d]) /\ stack'[d].i # stack[d].i =>
             /\ stack'[d].coords = stack[d].coords
             /\ stack'[d].chunk_size = stack[d].chunk_size
             /\ stack[d].i + stack[d].chunk_size < Len(stack[d].coords)
             /\ stack'[d].i = stack[d].i + stack[d].chunk_size - overlap
      /\ stack # <<>> /\ Len(stack') < Len(stack) /\ ret'.tag = "list"
           /\ Windowed(Last(stack)) =>
             Last(stack).i + Last(stack).chunk_size >= Len(Last(stack).coords)
    ]_vars

\* A call on 12 points with chunk size 6 has sent its 7 windows, the last
\* one ending at the last input point, and has returned a geometry.
C17_Witness ==
  /\ pc = "matching"
  /\ stack = <<>>
  /\ ret.tag = "list"
  /\ Len(match_call.coords) = 12
  /\ match_call.chunk_size = 6
  /\ nreq = 7
  /\ last.chunk = SubSeq(match_call.coords, 7, 12)

----------------------------------------------------------------------------
(* Properties of the Spacing Interpolator *)

\* interpolate_waypoints_along_geometry has returned a list.
Resampled == resample.out.tag = "list"

\* C11 (resample endpoints): when the interpolator returns for a polyline
\* of at least 2 points, the first element of the output is the first input
\* point and the last element is the last input point, and when the last
\* point placed by the walk already equals the last input point nothing is
\* appended after it; an input of fewer than 2 points is returned as it is.
C11_ResampleEndpoints ==
  Resampled =>
    LET g == resample.geometry
        out == resample.out.geom
        placed == resample.walk.waypoints
    IN IF Len(g) < 2 THEN out = g
       ELSE /\ out # <<>>
            /\ out[1] = g[1]
            /\ Last(out) = Last(g)
            /\ ~resample.differs => out = placed
            /\ resample.differs => out = Append(placed, Last(g))
            /\ Len(placed) = 1 /\ placed[1] = Last(g) => out = placed

\* The walk over a polyline of several legs has placed its last point on the
\* last input point, and the interpolator has returned.
C11_Witness ==
  /\ Resampled
  /\ ~resample.differs
  /\ Len(resample.geometry) >= 3
  /\ Len(resample.walk.waypoints) >= 3
  /\ Last(resample.walk.waypoints) = Last(resample.geometry)
  /\ resample.out.geom = resample.walk.waypoints

\* The length of leg j of a polyline, and the arc length up to the end of
\* leg j.
LegLength(g, j) == haversine_distance(g[j][1], g[j][2], g[j + 1][1], g[j + 1][2])
RECURSIVE ArcLength(_, _)
ArcLength(g, j) == IF j <= 0 THEN 0 ELSE ArcLength(g, j - 1) + LegLength(g, j)

\* The point of the polyline at arc length t from its first point
\* (0 <= t <= total arc length): on the first leg that reaches t.
ArcPoint(g, t) ==
  LET j == CHOOSE j \in 1..(Len(g) - 1) :
             /\ t <= ArcLength(g, j)
             /\ \A h \in 1..(j - 1) : ArcLength(g, h) < t
  IN IF LegLength(g, j) = 0 THEN g[j + 1]
     ELSE interpolate_point(g[j][1], g[j][2], g[j + 1][1], g[j + 1][2],
                            t - ArcLength(g, j - 1), LegLength(g, j))

\* C12 (resample spacing): the list returned for a polyline of at least 2
\* points, of total arc length L, holds after the first point exactly one
\* point at each arc length k * spacing, k = 1..floor(L / spacing), in
\* increasing order, and after these at most the last input point.
C12_ResampleSpacing ==
  Resampled /\ Len(resample.geometry) >= 2 =>
    LET g == resample.geometry
        out == resample.out.geom
        n == ArcLength(g, Len(g) - 1) \div resample.spacing
    IN /\ Len(out) \in {n + 1, n + 2}
       /\ \A k \in 1..n : out[k + 1] = ArcPoint(g, k * resample.spacing)
       /\ Len(out) = n + 2 => out[n + 2] = Last(g)

\* C18 (resample walk): for every polyline of at least 2 points, legs of
\* length 0 included, and every spacing above 0, the walk raises no division
\* by zero, and at the end of every leg the accumulated distance is at
\* least 0 and below the spacing.
C18_CarryBounded ==
  Len(resample.geometry) >= 2 /\ resample.spacing > 0 =>
    /\ resample.walk.error = ""
    /\ resample.out.tag # "raise"
    /\ resample.walk.accumulated_distance >= 0
    /\ resample.walk.accumulated_distance <= resample.spacing
    /\ ~resample.walk.reached

----------------------------------------------------------------------------
(* Properties of the reassembly and of the file *)

\* The number of stop-kind points of a sequence before position j.
StopsBefore(points, j) ==
  Cardinality({h \in 1..(j - 1) : StopKind(points[h])})

\* C13 (reassembly order): in the route that normalize_route returns, every
\* point that is no stop was generated for a segment and stands where that
\* segment belongs: a lead-in waypoint before every stop, a waypoint of the
\* segment between stops k and k+1 after exactly k stops, a trail-out
\* waypoint after every stop, and the generated waypoints stand in the order
\* they were generated in; a waypoint comes first only if the input begins
\* with a point that is no stop, and last only if the input ends with one.
C13_ReassemblyOrder ==
  Normalized =>
    LET total == Len(SelectSeq(new_points, StopKind))
    IN /\ \A j \in 1..Len(new_points) :
            ~StopKind(new_points[j]) =>
              LET n == new_points[j].id - generate_uuid7(0)
              IN /\ n \in 1..Len(minted)
                 /\ StopsBefore(new_points, j) =
                      (CASE minted[n].phase = "pre" -> 0
                         [] minted[n].phase = "seg" -> minted[n].seg_idx
                         [] minted[n].phase = "post" -> total)
                 /\ minted[n].phase = "seg" => minted[n].seg_idx \in 1..(total - 1)
       /\ \A i, j \in 1..Len(new_points) :
            i < j /\ ~StopKind(new_points[i]) /\ ~StopKind(new_points[j])
              => new_points[i].id < new_points[j].id
       /\ new_points # <<>>
       /\ ~StopKind(new_points[1]) => ~StopKind(route[1])
       /\ ~StopKind(Last(new_points)) => ~StopKind(Last(route))

\* A route with a lead-in, a bend between its stops and a trail-out has been
\* normalized, and waypoints of all three parts are in the result.
C13_Witness ==
  /\ pc = "normalized"
  /\ route = RouteB
  /\ \E a, b, c \in 1..Len(minted) :
        /\ minted[a].phase = "pre"
        /\ minted[b].phase = "seg"
        /\ minted[c].phase = "post"
        /\ \A n \in {a, b, c} :
             \E j \in 1..Len(new_points) : new_points[j].id = generate_uuid7(n)

\* C14 (backup before overwrite): whenever process_route_file has written
\* to the route file, so that the file is no longer the document it read,
\* the backup file is a complete copy of that document, whatever the backup
\* option is.
C14_BackupBeforeOverwrite ==
  pc # "start" /\ file # Document(route) => bak = Document(route)

\* The coordinates and kinds of a document, position by position.
CoordinatesAndKinds(points) ==
  [k \in 1..Len(points) |->
     <<points[k].latitude, points[k].longitude, points[k].kind>>]

\* The tool has been run a second time on its own output and has written.
WrittenTwice == pc = "done" /\ result = "True" /\ Len(written) >= 2

\* C16 (idempotence), as the code has it: when every request to the service
\* fails in both runs, the second normalization at the same spacing writes
\* the coordinates and kinds of the first, position by position.
C16_IdempotentWhenServiceFails ==
  WrittenTwice /\ all_failed =>
    CoordinatesAndKinds(written[Len(written)]) =
      CoordinatesAndKinds(written[Len(written) - 1])

\* C16 as stated: whatever the service answers, the second normalization
\* writes the coordinates and kinds of the first.
C16_Idempotent ==
  WrittenTwice =>
    CoordinatesAndKinds(written[Len(written)]) =
      CoordinatesAndKinds(written[Len(written) - 1])

\* A route with a lead-in and a trail-out has been normalized twice with
\* every request failing; waypoints were generated both times.
C16_Witness ==
  /\ WrittenTwice
  /\ all_failed
  /\ written[1][1].kind = "waypoint"
  /\ Last(written[1]).kind = "waypoint"
  /\ Len(written[2]) > 5
  /\ written[2][1].id # written[1][1].id

----------------------------------------------------------------------------
(* Properties of main *)

\* C15 (batch processing): when main has ended, every file of the list has
\* been attempted, in list order, whatever happened to the files before it;
\* the success count is the number of files that succeeded; and the exit
\* status is non-zero exactly when some file of the list failed or was
\* missing.
C15_BatchProcessing ==
  batch.at = "exited" =>
    LET n == Len(batch.route_files)
        out == batch.outcomes
    IN /\ [k \in 1..Len(out) |-> out[k].i] = [k \in 1..n |-> k]
       /\ batch.success_count =
            Cardinality({k \in 1..Len(out) : out[k].outcome = "ok"})
       /\ batch.status # "0" <=>
            \E k \in 1..n :
              ~\E h \in 1..Len(out) : out[h].i = k /\ out[h].outcome = "ok"

====
